---- MODULE Spec2Model ----
(***************************************************************************)
(* OpsAgent: a WhatsApp webhook handler (main.py) and a polling monitor    *)
(* (scheduler.py) that share one remote spreadsheet with the tabs          *)
(* Inventory, Sales, Ledger, Khata and Staff.  Every remote call is one    *)
(* step, so that the reads and writes of the processes interleave as they  *)
(* do against the spreadsheet service, and every remote call may raise.    *)
(***************************************************************************)
EXTENDS Integers, Sequences, FiniteSets, TLC

\* ---------------------------------------------------------------- bounds
\* Webhook requests parsed and dispatched over a run.
MaxReq == 2
\* Polling cycles over a run in which the monitor opens the spreadsheet.
MaxCycles == 2
\* Remote calls that raise over a run.
MaxFaults == 1

\* ------------------------------------------------------ program constants
\* scheduler.py:98 low-stock limit (qty < 10).
LowStock == 10
\* main.py:135 similarity cutoff (score > 80).
FuzzyCutoff == 80
\* scheduler.py:182 pending-dues limit (amount > 500).
DuesLimit == 500

\* Handler slots of the server (requests in flight).
Procs == {1, 2}

\* ------------------------------------------------------------ input sets
\* Item names the LLM may return, as the characters the scorer compares.
Chars(n) ==
    CASE n = "maggi" -> <<"m", "a", "g", "g", "i">>
      [] n = "magi"  -> <<"m", "a", "g", "i">>
      [] n = "maggy" -> <<"m", "a", "g", "g", "y">>
      [] n = "raju"  -> <<"r", "a", "j", "u">>
      [] n = "shyam" -> <<"s", "h", "y", "a", "m">>
      [] n = "ram"   -> <<"r", "a", "m">>
      [] OTHER       -> << >>
ItemNames == {"maggi", "magi", "maggy"}

Max(a, b) == IF a >= b THEN a ELSE b

\* ------------------------------------------------- fuzzy name matching
\* Length of the longest common subsequence of s[1..i] and t[1..j].
RECURSIVE LCS(_, _, _, _)
LCS(s, t, i, j) ==
    IF i = 0 \/ j = 0 THEN 0
    ELSE IF s[i] = t[j] THEN 1 + LCS(s, t, i - 1, j - 1)
    ELSE Max(LCS(s, t, i - 1, j), LCS(s, t, i, j - 1))

\* thefuzz's scorer on two single-token lower-case names: the normalized
\* indel similarity 100 * 2*LCS / (len1 + len2), rounded to an integer.
Ratio(a, b) ==
    LET s == Chars(a)
        t == Chars(b)
        T == Len(s) + Len(t)
        m == LCS(s, t, Len(s), Len(t))
    IN IF T = 0 THEN 100 ELSE (400 * m + T) \div (2 * T)

ScoreTab == [p \in ItemNames \X ItemNames |-> Ratio(p[1], p[2])]
Score(q, n) == ScoreTab[<<q, n>>]

\* process.extractOne(item_name, existing_items): index of the best scoring
\* name, the first one on a tie; 0 when the list is empty.
RECURSIVE BestIdx(_, _, _)
BestIdx(q, names, k) ==
    IF k = 0 THEN 0
    ELSE LET b == BestIdx(q, names, k - 1)
         IN IF b = 0 THEN k
            ELSE IF Score(q, names[k]) > Score(q, names[b]) THEN k ELSE b

ExtractOne(q, names) ==
    LET b == BestIdx(q, names, Len(names))
    IN IF b = 0 THEN [match |-> "", score |-> 0]
       ELSE [match |-> names[b], score |-> Score(q, names[b])]

\* First 1-based position of a row named n, 0 when none.
RECURSIVE FirstRow(_, _, _)
FirstRow(rows, n, k) ==
    IF k > Len(rows) THEN 0
    ELSE IF rows[k].name = n THEN k ELSE FirstRow(rows, n, k + 1)

\* Variant of Accepts with a cutoff of 90.
AcceptsAbove90(m) == m.match # "" /\ m.score > 90

\* Variant of Accepts that takes a score equal to the cutoff as a match.
AcceptsFromCutoff(m) == m.match # "" /\ m.score >= FuzzyCutoff

\* Lines 129-141 of update_inventory_stock on the rows just read.
Accepts(m) == m.match # "" /\ m.score > FuzzyCutoff

Resolve(rows, item) ==
    LET names == [k \in 1..Len(rows) |-> rows[k].name]
        m == ExtractOne(item, names)
    IN IF Accepts(m)
       THEN LET k == FirstRow(rows, m.match, 1)
            IN [name |-> m.match, row |-> k, cur |-> rows[k].qty]
       ELSE [name |-> item, row |-> 0, cur |-> 0]

\* Variant of NewQty without the floor at 0.
NewQtyNoFloor(cur, change) == cur + change

\* Variant of NewQty that leaves the quantity alone when the stock does not
\* cover the sale.
NewQtyKeepOnShortage(cur, change) == IF cur + change < 0 THEN cur ELSE cur + change

\* new_qty = max(0, current_qty + qty_change)
NewQty(cur, change) == Max(0, cur + change)

\* ------------------------------------------------------------------ state
VARIABLES
    schema,     \* which script created the Staff and Khata tabs
    inv,        \* Inventory rows below the header: name, qty, flag
    sales,      \* Sales rows: name, qty, mode
    ledger,     \* Ledger rows: name of the restocked item
    khata,      \* Khata rows: amount, status, flag
    staff,      \* Staff rows: name, status, flag
    h,          \* per webhook request handler: position and locals
    nreq,       \* webhook requests dispatched so far
    mpc,        \* position of the monitor process
    mrows,      \* rows the running check got from get_all_values
    mi,         \* index of the next row of mrows the check looks at
    ncycle,     \* polling cycles that opened the spreadsheet
    sent,       \* alerts handed to send_whatsapp_alert, per tab and row
    crossings,  \* per Inventory row: writes taking qty from >= 10 to < 10
    nfault,     \* remote calls that have raised so far
    users,      \* users table of opsagent.db: password_hash per account
    sess,       \* st.session_state and widgets of one dashboard session
    url,        \* the email query parameter of the dashboard URL
    logged_out, \* history: Logout was clicked in the session and no
                \* credentials were submitted through the form since
    gateway     \* the messaging service of the monitor: "up" (delivers),
                \* "down" (messages.create raises) or "none" (not configured)

tabs == <<inv, sales, ledger, khata, staff>>
monitor == <<mpc, mrows, mi, ncycle, sent>>
dash == <<users, sess, url, logged_out>>
sheetvars == <<schema, inv, sales, ledger, khata, staff, h, nreq,
               mpc, mrows, mi, ncycle, sent, crossings, nfault, gateway>>
vars == <<schema, inv, sales, ledger, khata, staff, h, nreq,
          mpc, mrows, mi, ncycle, sent, crossings, nfault, users, sess, url,
          logged_out, gateway>>

\* A remote call (spreadsheet, LLM, download) raises, or returns normally.
Raises == nfault < MaxFaults /\ nfault' = nfault + 1
Returns == nfault' = nfault

\* ------------------------------------------------- the webhook handler
NoReq ==
    [action |-> "NONE", item |-> "", qty |-> 0, price |-> 0, mode |-> "",
     staff_name |-> "", staff_status |-> ""]

Idle == [pc |-> "idle", req |-> NoReq, name |-> "", row |-> 0, cur |-> 0,
         reply |-> ""]

Msg(a, i, q, pr, m, n, st) ==
    [action |-> a, item |-> i, qty |-> q, price |-> pr, mode |-> m,
     staff_name |-> n, staff_status |-> st]

\* The parsed LLM answers (main.py:296-303) a run draws from: sales and
\* restocks of 4 and of 12 units under the three spellings, cash and credit
\* (UDHAR) sales with the amounts 500 and 501, restocks with and without a
\* cost, staff updates for a listed and an unlisted name, and an expense.
Requests ==
    { Msg("RESTOCK", "maggi", 12, 501, "", "", ""),
      Msg("RESTOCK", "magi", 4, 0, "", "", ""),
      Msg("RESTOCK", "maggy", 12, 501, "", "", ""),
      Msg("SALE", "magi", 4, 501, "CASH", "", ""),
      Msg("SALE", "maggi", 12, 501, "UDHAR", "", ""),
      Msg("SALE", "maggy", 4, 500, "UDHAR", "", ""),
      Msg("STAFF", "", 0, 0, "", "shyam", "Present"),
      Msg("STAFF", "", 0, 0, "", "raju", "Absent"),
      Msg("STAFF", "", 0, 0, "", "ram", "Absent"),
      Msg("EXPENSE", "", 0, 0, "", "", "") }

\* Replies the handler returns to the messaging gateway.
UserReplies ==
    {"unregistered", "expired", "img_error", "error", "ok",
     "staff_marked", "staff_notfound", "staff_failed"}

\* Variant of Caught in which the calls made before the dispatch are not
\* inside the try block: their exception leaves the handler.
CaughtAfterParseOnly(stage) ==
    IF stage = "parse" THEN "RAISED"
    ELSE IF stage = "staff" THEN "staff_failed" ELSE "error"

\* What becomes of an exception raised at a stage of the handler: every
\* stage runs inside a try block whose except clause builds a reply
\* (main.py:325-327 and 163-165).
Caught(stage) == IF stage = "staff" THEN "staff_failed" ELSE "error"

\* The handler returns reply r; its locals are gone.
Done(hp, r) == [Idle EXCEPT !.pc = "done", !.reply = r]

\* update_inventory_stock returns resolved_name; row_idx and current_qty
\* are its locals.
Leave(hp, next) == [hp EXCEPT !.pc = next, !.row = 0, !.cur = 0]

\* qty_change and cost as reply_whatsapp passes them (main.py:306, 320).
Change(r) == IF r.action = "SALE" THEN 0 - r.qty ELSE r.qty
Cost(r) == IF r.action = "RESTOCK" THEN r.price ELSE 0

\* Where reply_whatsapp goes after update_inventory_stock returns.
AfterInv(r) == IF r.action = "SALE" THEN "sales" ELSE "ledger"

\* Variant of FirstStep that logs an expense to the Ledger tab.
FirstStepExpenseLogged(r) ==
    CASE r.action = "SALE" -> "inv_read"
      [] r.action = "RESTOCK" -> "inv_read"
      [] r.action = "STAFF" -> "staff"
      [] r.action = "EXPENSE" -> "ledger"
      [] OTHER -> "reply"

\* Dispatch on the action tag (main.py:305-323).
FirstStep(r) ==
    CASE r.action = "SALE" -> "inv_read"
      [] r.action = "RESTOCK" -> "inv_read"
      [] r.action = "STAFF" -> "staff"
      [] OTHER -> "reply"

\* Variant of CanAccept for a server that takes up a request while another
\* handler is between two of its remote calls.
CanAcceptWhileBusy(p) == TRUE

\* reply_whatsapp is an async def that awaits nothing after request.form()
\* (main.py:247), and the server is one uvicorn process (main.py:331,
\* run_system.py:103): a request is taken up only when no other is running.
CanAccept(p) == \A q \in Procs : h[q].pc = "idle"

\* A request takes the lowest free handler slot.
FreeSlot(p) == h[p].pc = "idle" /\ \A q \in Procs : q < p => h[q].pc # "idle"

\* main.py:246-303: the request arrives; sender lookup, credentials, image
\* download, LLM call and JSON parse happen before any spreadsheet write.
Receive(p) ==
    /\ FreeSlot(p)
    /\ CanAccept(p)
    /\ nreq < MaxReq
    /\ \/ /\ \E o \in {"unregistered", "expired", "img_error"} :
               h' = [h EXCEPT ![p] = Done(@, o)]
          /\ Returns
          /\ UNCHANGED nreq
       \/ /\ h' = [h EXCEPT ![p] = Done(@, Caught("parse"))]
          /\ Raises
          /\ UNCHANGED nreq
       \/ /\ \E r \in Requests :
               h' = [h EXCEPT ![p] = [Idle EXCEPT !.pc = FirstStep(r),
                                                  !.req = r, !.name = r.item]]
          /\ Returns
          /\ nreq' = nreq + 1
    /\ UNCHANGED <<dash, gateway, schema, tabs, monitor, crossings>>

\* main.py:127-141: read the tab, find the best match and its row.  A raised
\* call is caught at 149 and resolved_name stays the raw item name.
InvRead(p) ==
    /\ h[p].pc = "inv_read"
    /\ \/ /\ LET r == Resolve(inv, h[p].req.item)
                 nxt == IF r.row # 0 THEN "inv_write"
                        ELSE IF Change(h[p].req) > 0 THEN "inv_append"
                        ELSE AfterInv(h[p].req)
             IN h' = [h EXCEPT ![p].pc = nxt, ![p].name = r.name,
                               ![p].row = r.row, ![p].cur = r.cur]
          /\ Returns
       \/ /\ h' = [h EXCEPT ![p].pc = AfterInv(h[p].req)]
          /\ Raises
    /\ UNCHANGED <<dash, gateway, schema, tabs, nreq, monitor, crossings>>

\* main.py:144-145: ws.update_cell(row_idx, 2, new_qty).
InvWrite(p) ==
    /\ h[p].pc = "inv_write"
    /\ LET r == h[p].req
           k == h[p].row
           new == NewQty(h[p].cur, Change(r))
       IN \/ /\ inv' = [inv EXCEPT ![k].qty = new]
             /\ crossings' =
                  IF inv[k].qty >= LowStock /\ new < LowStock
                  THEN [crossings EXCEPT ![k] = @ + 1] ELSE crossings
             /\ h' = [h EXCEPT ![p] =
                        IF Change(r) > 0 /\ Cost(r) > 0
                        THEN [@ EXCEPT !.pc = "inv_cost"]
                        ELSE Leave(@, AfterInv(r))]
             /\ Returns
          \/ /\ h' = [h EXCEPT ![p] = Leave(@, AfterInv(r))]
             /\ UNCHANGED <<inv, crossings>>
             /\ Raises
    /\ UNCHANGED <<dash, gateway, schema, sales, ledger, khata, staff, nreq, monitor>>

\* main.py:146: ws.update_cell(row_idx, 3, cost).  The cost column is never
\* read by the code, so only the call is kept: whether it returns or raises,
\* update_inventory_stock returns next.
InvCost(p) ==
    /\ h[p].pc = "inv_cost"
    /\ h' = [h EXCEPT ![p] = Leave(@, AfterInv(h[p].req))]
    /\ UNCHANGED <<dash, gateway, schema, tabs, nreq, monitor, crossings, nfault>>

\* main.py:147-148: no matched row and a positive change: append a row.
InvAppend(p) ==
    /\ h[p].pc = "inv_append"
    /\ \/ /\ inv' = Append(inv, [name |-> h[p].name, qty |-> Change(h[p].req),
                                 flag |-> ""])
          /\ Returns
       \/ /\ UNCHANGED inv
          /\ Raises
    /\ h' = [h EXCEPT ![p] = Leave(@, AfterInv(h[p].req))]
    /\ UNCHANGED <<dash, gateway, schema, sales, ledger, khata, staff, nreq, monitor, crossings>>

\* Variant of KhataRowFor that records the due as settled.
KhataRowPaid(r) == [amount |-> r.price, status |-> "Paid", flag |-> ""]

\* The Sales row of main.py:307-309 and the Khata row of main.py:311-313,
\* without the date, price, party and phone columns, which the code copies
\* from the message and never reads back.
SalesRowFor(name, r) == [name |-> name, qty |-> r.qty, mode |-> r.mode]
KhataRowFor(r) == [amount |-> r.price, status |-> "Pending", flag |-> ""]

\* Variant of SalesAppend that overwrites the last Sales row instead of
\* appending below it.
SalesAppendOverwrite(p) ==
    /\ h[p].pc = "sales"
    /\ LET r == h[p].req
           row == SalesRowFor(h[p].name, r)
       IN \/ /\ sales' = IF sales = << >> THEN <<row>>
                          ELSE [sales EXCEPT ![Len(sales)] = row]
             /\ h' = [h EXCEPT ![p] = IF r.mode = "UDHAR"
                                      THEN [@ EXCEPT !.pc = "khata"]
                                      ELSE Done(@, "ok")]
             /\ Returns
          \/ /\ h' = [h EXCEPT ![p] = Done(@, Caught("sales"))]
             /\ UNCHANGED sales
             /\ Raises
    /\ UNCHANGED <<dash, gateway, schema, inv, ledger, khata, staff, nreq, monitor, crossings>>

\* main.py:307-310: append the Sales row under the resolved name.
SalesAppend(p) ==
    /\ h[p].pc = "sales"
    /\ LET r == h[p].req
       IN \/ /\ sales' = Append(sales, SalesRowFor(h[p].name, r))
             /\ h' = [h EXCEPT ![p] = IF r.mode = "UDHAR"
                                      THEN [@ EXCEPT !.pc = "khata"]
                                      ELSE Done(@, "ok")]
             /\ Returns
          \/ /\ h' = [h EXCEPT ![p] = Done(@, Caught("sales"))]
             /\ UNCHANGED sales
             /\ Raises
    /\ UNCHANGED <<dash, gateway, schema, inv, ledger, khata, staff, nreq, monitor, crossings>>

\* Variant of KhataAppend that takes the Sales row back when the Khata
\* append raises.
KhataAppendRollback(p) ==
    /\ h[p].pc = "khata"
    /\ LET r == h[p].req
       IN \/ /\ khata' = Append(khata, KhataRowFor(r))
             /\ h' = [h EXCEPT ![p] = Done(@, "ok")]
             /\ UNCHANGED sales
             /\ Returns
          \/ /\ h' = [h EXCEPT ![p] = Done(@, Caught("khata"))]
             /\ sales' = SubSeq(sales, 1, Len(sales) - 1)
             /\ UNCHANGED khata
             /\ Raises
    /\ UNCHANGED <<dash, gateway, schema, inv, ledger, staff, nreq, monitor, crossings>>

\* main.py:311-313: a credit sale appends a Pending Khata row.
KhataAppend(p) ==
    /\ h[p].pc = "khata"
    /\ LET r == h[p].req
       IN \/ /\ khata' = Append(khata, KhataRowFor(r))
             /\ h' = [h EXCEPT ![p] = Done(@, "ok")]
             /\ Returns
          \/ /\ h' = [h EXCEPT ![p] = Done(@, Caught("khata"))]
             /\ UNCHANGED khata
             /\ Raises
    /\ UNCHANGED <<dash, gateway, schema, inv, sales, ledger, staff, nreq, monitor, crossings>>

\* main.py:321: a restock appends a Ledger row.
LedgerAppend(p) ==
    /\ h[p].pc = "ledger"
    /\ \/ /\ ledger' = Append(ledger, [name |-> h[p].name])
          /\ h' = [h EXCEPT ![p] = Done(@, "ok")]
          /\ Returns
       \/ /\ h' = [h EXCEPT ![p] = Done(@, Caught("ledger"))]
          /\ UNCHANGED ledger
          /\ Raises
    /\ UNCHANGED <<dash, gateway, schema, inv, sales, khata, staff, nreq, monitor, crossings>>

\* staff_name.lower() in str(row[0]).lower(): q occurs in n at offset d.
IsSubstr(q, n) ==
    LET s == Chars(q)
        t == Chars(n)
    IN \E d \in 0..(Len(t) - Len(s)) : \A k \in 1..Len(s) : s[k] = t[d + k]

RECURSIVE FirstStaff(_, _, _)
FirstStaff(rows, q, k) ==
    IF k > Len(rows) THEN 0
    ELSE IF IsSubstr(q, rows[k].name) THEN k ELSE FirstStaff(rows, q, k + 1)

\* main.py:153-165 update_staff_status: status of the first matching row.
StaffUpdate(p) ==
    /\ h[p].pc = "staff"
    /\ LET r == h[p].req
           k == FirstStaff(staff, r.staff_name, 1)
       IN \/ /\ k # 0
             /\ staff' = [staff EXCEPT ![k].status = r.staff_status]
             /\ h' = [h EXCEPT ![p] = Done(@, "staff_marked")]
             /\ Returns
          \/ /\ k = 0
             /\ h' = [h EXCEPT ![p] = Done(@, "staff_notfound")]
             /\ UNCHANGED staff
             /\ Returns
          \/ /\ h' = [h EXCEPT ![p] = Done(@, Caught("staff"))]
             /\ UNCHANGED staff
             /\ Raises
    /\ UNCHANGED <<dash, gateway, schema, inv, sales, ledger, khata, nreq, monitor, crossings>>

\* main.py:323: any other tag only returns the LLM's confirmation.
ReplyOnly(p) ==
    /\ h[p].pc = "reply"
    /\ h' = [h EXCEPT ![p] = Done(@, "ok")]
    /\ UNCHANGED <<dash, gateway, schema, tabs, nreq, monitor, crossings, nfault>>

\* The handler has returned its reply; the worker takes the next request.
Return(p) ==
    /\ h[p].pc = "done"
    /\ h' = [h EXCEPT ![p] = Idle]
    /\ UNCHANGED <<dash, gateway, schema, tabs, nreq, monitor, crossings, nfault>>

Handler(p) ==
    \/ Receive(p)
    \/ InvRead(p)
    \/ InvWrite(p)
    \/ InvCost(p)
    \/ InvAppend(p)
    \/ SalesAppend(p)
    \/ KhataAppend(p)
    \/ LedgerAppend(p)
    \/ StaffUpdate(p)
    \/ ReplyOnly(p)
    \/ Return(p)

\* ----------------------------------------------------- the polling monitor
\* Columns of the Staff and Khata grids: initialize_user_sheet creates them
\* with 5 and 6 columns (no alert column), fix_schema with 6 and 7.
StaffCols == IF schema = "init" THEN 5 ELSE 6
KhataCols == IF schema = "init" THEN 6 ELSE 7

\* Rows a tab can hold over a run: the rows present at the start plus one
\* per accepted request.
RowCap == MaxReq + 2

NoAlerts == [k \in 1..RowCap |-> 0]

\* scheduler.py:64-76 send_whatsapp_alert: without a client or a recipient
\* the message is only logged; otherwise messages.create delivers it or
\* raises.
send_whatsapp_alert(g) ==
    CASE g = "none" -> "simulated"
      [] g = "down" -> "failed"
      [] g = "up" -> "delivered"

\* Variant of SendRaises without the try block around messages.create.
SendRaisesOnFailure(outcome) == outcome = "failed"

\* Whether the call of send_whatsapp_alert raises: never, the exception of
\* messages.create is caught and logged at scheduler.py:75-76.
SendRaises(outcome) == FALSE

\* send_whatsapp_alert(msg) was called for row k of tab t.
Alerted(t, k) == [sent EXCEPT ![t][k] = @ + 1]

\* The check moves to the next row, or on to the next check after the last.
Advance(next) ==
    IF mi < Len(mrows)
    THEN /\ mi' = mi + 1
         /\ UNCHANGED <<mpc, mrows>>
    ELSE /\ mpc' = next
         /\ mrows' = << >>
         /\ mi' = 0

\* Variant of Abort for a check without its own try block: the exception
\* reaches the main loop, which sleeps and skips the checks that remain.
AbortCycle(next) ==
    /\ mpc' = "sleep"
    /\ mrows' = << >>
    /\ mi' = 0

\* An exception ends the running check (its except clause logs it).
Abort(next) ==
    /\ mpc' = next
    /\ mrows' = << >>
    /\ mi' = 0

\* scheduler.py:208-225: a cycle starts after the sleep; without a client or
\* without the spreadsheet it goes back to sleep.
CycleStart ==
    /\ mpc = "sleep"
    /\ ncycle < MaxCycles
    /\ \/ mpc' = "inv" /\ ncycle' = ncycle + 1
       \/ mpc' = "sleep" /\ UNCHANGED ncycle
    /\ UNCHANGED <<dash, gateway, schema, tabs, h, nreq, mrows, mi, sent, crossings, nfault>>

\* A check reads its tab with get_all_values (scheduler.py:83-84, 127-130,
\* 165-168); an empty tab ends the check at once.
ReadTab(here, rows, loop, next) ==
    /\ mpc = here
    /\ \/ /\ rows # << >>
          /\ mpc' = loop
          /\ mrows' = rows
          /\ mi' = 1
          /\ Returns
       \/ /\ rows = << >>
          /\ mpc' = next
          /\ UNCHANGED <<mrows, mi>>
          /\ Returns
       \/ /\ Abort(next)
          /\ Raises
    /\ UNCHANGED <<dash, gateway, schema, tabs, h, nreq, ncycle, sent, crossings>>

InvCheckRead == ReadTab("inv", inv, "inv_rows", "staff")
StaffCheckRead == ReadTab("staff", staff, "staff_rows", "khata")
KhataCheckRead == ReadTab("khata", khata, "khata_rows", "sleep")

\* Variant of InvDecision that does not look at the flag before alerting.
InvDecisionNoFlag(row) ==
    IF row.qty < LowStock THEN "alert"
    ELSE IF row.flag = "SENT" THEN "reset"
    ELSE "skip"

\* Variant of InvDecision without the reset branch.
InvDecisionNoReset(row) ==
    IF row.qty < LowStock /\ row.flag # "SENT" THEN "alert" ELSE "skip"

\* scheduler.py:98 and 116: what the inventory check does with a row read.
InvDecision(row) ==
    IF row.qty < LowStock /\ row.flag # "SENT" THEN "alert"
    ELSE IF row.qty >= LowStock /\ row.flag = "SENT" THEN "reset"
    ELSE "skip"

\* Variant of StaffDecision that does not look at the flag before alerting.
StaffDecisionNoFlag(row) ==
    IF row.status = "Absent" THEN "alert"
    ELSE IF row.flag = "SENT" THEN "reset"
    ELSE "skip"

\* scheduler.py:141 and 156.
StaffDecision(row) ==
    IF row.status = "Absent" /\ row.flag # "SENT" THEN "alert"
    ELSE IF row.status = "Present" /\ row.flag = "SENT" THEN "reset"
    ELSE "skip"

\* scheduler.py:182 and 197.
KhataDecision(row) ==
    IF row.status = "Pending" /\ row.amount > DuesLimit /\ row.flag # "SENT"
    THEN "alert"
    ELSE IF row.status = "Paid" /\ row.flag = "SENT" THEN "reset"
    ELSE "skip"

\* The flag value a decision writes.
FlagFor(d) == IF d = "alert" THEN "SENT" ELSE ""

\* Variant of InvRow whose flag write is conditional: SENT is written only
\* if the row is still below the limit when the write arrives.
InvRowConditional ==
    /\ mpc = "inv_rows"
    /\ LET d == InvDecision(mrows[mi])
           stale == d = "alert" /\ inv[mi].qty >= LowStock
       IN /\ sent' = IF d = "alert" THEN Alerted("Inventory", mi) ELSE sent
          /\ \/ /\ d = "skip" \/ stale
                /\ UNCHANGED inv
                /\ Advance("staff")
                /\ Returns
             \/ /\ d # "skip" /\ ~stale
                /\ inv' = [inv EXCEPT ![mi].flag = FlagFor(d)]
                /\ Advance("staff")
                /\ Returns
             \/ /\ d # "skip"
                /\ UNCHANGED inv
                /\ Abort("staff")
                /\ Raises
    /\ UNCHANGED <<dash, gateway, schema, sales, ledger, khata, staff, h, nreq, ncycle, crossings>>

\* scheduler.py:87-118: one iteration of the inventory loop on row mi of the
\* rows read: alert and write SENT, or write the empty flag, or nothing.
\* The flag is column 5 of the first sheet, which has it.
InvRow ==
    /\ mpc = "inv_rows"
    /\ LET d == InvDecision(mrows[mi])
           lost == d = "alert" /\ SendRaises(send_whatsapp_alert(gateway))
       IN /\ sent' = IF d = "alert" THEN Alerted("Inventory", mi) ELSE sent
          /\ \/ /\ d = "skip"
                /\ UNCHANGED inv
                /\ Advance("staff")
                /\ Returns
             \/ /\ d # "skip" /\ ~lost
                /\ inv' = [inv EXCEPT ![mi].flag = FlagFor(d)]
                /\ Advance("staff")
                /\ Returns
             \/ /\ d # "skip"
                /\ UNCHANGED inv
                /\ Abort("staff")
                /\ IF lost THEN Returns ELSE Raises
    /\ UNCHANGED <<dash, gateway, schema, sales, ledger, khata, staff, h, nreq, ncycle, crossings>>

\* scheduler.py:133-157: one iteration of the staff loop; the flag is
\* column 6, and update_cell raises when the grid has no such column.
StaffRow ==
    /\ mpc = "staff_rows"
    /\ LET d == StaffDecision(mrows[mi])
           lost == d = "alert" /\ SendRaises(send_whatsapp_alert(gateway))
       IN /\ sent' = IF d = "alert" THEN Alerted("Staff", mi) ELSE sent
          /\ \/ /\ d = "skip"
                /\ UNCHANGED staff
                /\ Advance("khata")
                /\ Returns
             \/ /\ d # "skip" /\ ~lost
                /\ StaffCols >= 6
                /\ staff' = [staff EXCEPT ![mi].flag = FlagFor(d)]
                /\ Advance("khata")
                /\ Returns
             \/ /\ d # "skip"
                /\ StaffCols < 6 \/ lost
                /\ UNCHANGED staff
                /\ Abort("khata")
                /\ Returns
             \/ /\ d # "skip" /\ ~lost
                /\ StaffCols >= 6
                /\ UNCHANGED staff
                /\ Abort("khata")
                /\ Raises
    /\ UNCHANGED <<dash, gateway, schema, inv, sales, ledger, khata, h, nreq, ncycle, crossings>>

\* scheduler.py:171-198: one iteration of the cash-flow loop; the flag is
\* column 7, and update_cell raises when the grid has no such column.
KhataRow ==
    /\ mpc = "khata_rows"
    /\ LET d == KhataDecision(mrows[mi])
           lost == d = "alert" /\ SendRaises(send_whatsapp_alert(gateway))
       IN /\ sent' = IF d = "alert" THEN Alerted("Khata", mi) ELSE sent
          /\ \/ /\ d = "skip"
                /\ UNCHANGED khata
                /\ Advance("sleep")
                /\ Returns
             \/ /\ d # "skip" /\ ~lost
                /\ KhataCols >= 7
                /\ khata' = [khata EXCEPT ![mi].flag = FlagFor(d)]
                /\ Advance("sleep")
                /\ Returns
             \/ /\ d # "skip"
                /\ KhataCols < 7 \/ lost
                /\ UNCHANGED khata
                /\ Abort("sleep")
                /\ Returns
             \/ /\ d # "skip" /\ ~lost
                /\ KhataCols >= 7
                /\ UNCHANGED khata
                /\ Abort("sleep")
                /\ Raises
    /\ UNCHANGED <<dash, gateway, schema, inv, sales, ledger, staff, h, nreq, ncycle, crossings>>

Monitor ==
    \/ CycleStart
    \/ InvCheckRead
    \/ InvRow
    \/ StaffCheckRead
    \/ StaffRow
    \/ KhataCheckRead
    \/ KhataRow

\* -------------------------------------------------------- the shop owner
\* The owner marks a settled due Paid by editing the Khata tab by hand.
OwnerMarksPaid ==
    /\ \E k \in 1..Len(khata) :
         /\ khata[k].status = "Pending"
         /\ khata' = [khata EXCEPT ![k].status = "Paid"]
    /\ UNCHANGED <<dash, gateway, schema, inv, sales, ledger, staff, h, nreq, monitor, crossings,
                   nfault>>

\* ---------------------------------------------------------- the dashboard
\* Accounts of the users table, an email that is not in it, and the
\* passwords typed into the form.
Accounts == {"a@shop", "b@shop"}
Emails == Accounts \cup {"x@shop"}
Passwords == {"p1", "p2"}

\* password_hash is NULL until a password is set.
NoHash == ""

\* dashboard.py:70-71 hash_pass: SHA-256 hex digest, distinct for distinct
\* passwords and never empty (the empty password has a digest as well).
hash_pass(pw) ==
    CASE pw = "" -> "e3b0c442"
      [] pw = "p1" -> "0b14d501"
      [] pw = "p2" -> "6cf615d5"

\* dashboard.py:98-100: the session state of a new session; nothing has been
\* rendered yet.
NewSession ==
    [authenticated |-> FALSE, user_email |-> "", setup_mode |-> FALSE,
     email_input |-> "", pass_input |-> "", shown |-> "none"]

\* dashboard.py:73-87 authenticate.
authenticate(email, password) ==
    IF email \notin Accounts THEN "not_found"
    ELSE IF users[email] = NoHash THEN "SET_PASSWORD"
    ELSE IF users[email] = hash_pass(password) THEN "ok"
    ELSE "incorrect"

\* dashboard.py:104-113: a session that is not authenticated and whose URL
\* names an existing account becomes authenticated for it, and reruns.
AutoLogin(s) ==
    IF url # "" /\ ~s.authenticated /\ url \in Accounts
    THEN [s EXCEPT !.authenticated = TRUE, !.user_email = url,
                   !.setup_mode = FALSE]
    ELSE s

\* dashboard.py:115-140 and 143-195: what a run of the script shows.  The
\* login form, or, for an authenticated session, the tenant's data (an error
\* message when get_all_data returns None); the form's text inputs are not
\* part of the dashboard page, so their values are dropped.
Render(s, fetched) ==
    IF ~s.authenticated THEN [s EXCEPT !.shown = "login"]
    ELSE [s EXCEPT !.shown = IF fetched THEN "data" ELSE "error",
                   !.email_input = "", !.pass_input = ""]

\* A run of the script without a button click: the first load, the
\* 10-second autorefresh (dashboard.py:31) or a rerun.
Rerun(s, fetched) == Render(AutoLogin(s), fetched)

Refresh ==
    /\ \E fetched \in BOOLEAN : sess' = Rerun(sess, fetched)
    /\ UNCHANGED <<users, url, logged_out, sheetvars>>

\* dashboard.py:119-120: the user edits a text input of the login form.
TypeEmail ==
    /\ sess.shown = "login"
    /\ \E e \in Emails \cup {""}, fetched \in BOOLEAN :
         /\ e # sess.email_input
         /\ sess' = Rerun([sess EXCEPT !.email_input = e], fetched)
    /\ UNCHANGED <<users, url, logged_out, sheetvars>>

TypePassword ==
    /\ sess.shown = "login"
    /\ \E pw \in Passwords \cup {""}, fetched \in BOOLEAN :
         /\ pw # sess.pass_input
         /\ sess' = Rerun([sess EXCEPT !.pass_input = pw], fetched)
    /\ UNCHANGED <<users, url, logged_out, sheetvars>>

\* dashboard.py:122-133: "Access Dashboard" is clicked.
ClickAccess ==
    /\ sess.shown = "login"
    /\ LET s == AutoLogin(sess)
           r == authenticate(s.email_input, s.pass_input)
       IN /\ \E fetched \in BOOLEAN :
            sess' =
              IF s.authenticated THEN Render(s, fetched)
              ELSE IF s.email_input = "" \/ s.pass_input = "" THEN s
              ELSE IF r = "ok"
                   THEN Rerun([s EXCEPT !.authenticated = TRUE,
                                        !.user_email = s.email_input,
                                        !.setup_mode = FALSE], fetched)
              ELSE IF r = "SET_PASSWORD" THEN [s EXCEPT !.setup_mode = TRUE]
              ELSE s
          /\ logged_out' = IF /\ ~s.authenticated
                              /\ s.email_input # "" /\ s.pass_input # ""
                           THEN FALSE ELSE logged_out
    /\ UNCHANGED <<users, url, sheetvars>>

\* dashboard.py:89-95 set_initial_password: UPDATE users SET password_hash
\* WHERE email = ?, which changes no row for an email that is not there.
set_initial_password(email, new_password) ==
    IF email \in Accounts
    THEN [users EXCEPT ![email] = hash_pass(new_password)]
    ELSE users

\* dashboard.py:135-139: "Confirm Password", a button the form shows while
\* setup_mode is set, is clicked; it uses the inputs as they are now.
ClickConfirm ==
    /\ sess.shown = "login"
    /\ sess.setup_mode
    /\ LET s == AutoLogin(sess)
       IN IF s.authenticated
          THEN /\ \E fetched \in BOOLEAN : sess' = Render(s, fetched)
               /\ UNCHANGED users
          ELSE /\ users' = set_initial_password(s.email_input, s.pass_input)
               /\ sess' = [s EXCEPT !.setup_mode = FALSE]
    /\ UNCHANGED <<url, logged_out, sheetvars>>

\* dashboard.py:194-195: "Logout" is clicked on the dashboard page; the
\* session flag is cleared and the script reruns from the top.
ClickLogout ==
    /\ sess.shown = "data"
    /\ \E fetched \in BOOLEAN :
         sess' = Rerun([sess EXCEPT !.authenticated = FALSE], fetched)
    /\ logged_out' = TRUE
    /\ UNCHANGED <<users, url, sheetvars>>

Dashboard ==
    \/ Refresh
    \/ TypeEmail
    \/ TypePassword
    \/ ClickAccess
    \/ ClickConfirm
    \/ ClickLogout

\* ---------------------------------------------------------- specification
\* The spreadsheet as initialize_user_sheet (or fix_schema, for the Staff
\* and Khata tabs) leaves it: headers only, and the two sample Staff rows.
Init ==
    /\ schema \in {"init", "fixed"}
    /\ inv = << >>
    /\ sales = << >>
    /\ ledger = << >>
    /\ khata = << >>
    /\ staff = <<[name |-> "raju", status |-> "Present", flag |-> ""],
                 [name |-> "shyam", status |-> "Absent", flag |-> ""]>>
    /\ h = [p \in Procs |-> Idle]
    /\ nreq = 0
    /\ mpc = "sleep"
    /\ mrows = << >>
    /\ mi = 0
    /\ ncycle = 0
    /\ sent = [t \in {"Inventory", "Staff", "Khata"} |-> NoAlerts]
    /\ crossings = NoAlerts
    /\ nfault = 0
    /\ users = [e \in Accounts |-> NoHash]
    /\ sess = NewSession
    /\ url = ""
    /\ logged_out = FALSE
    /\ gateway = "up"

Next ==
    \/ \E p \in Procs : Handler(p)
    \/ Monitor
    \/ OwnerMarksPaid

Spec == Init /\ [][Next]_vars

\* The dashboard on its own: a session opened with or without the email
\* parameter, on a users table where each account has a password or none.
\* The spreadsheet side stays as created; the dashboard only reads it.
DashInit ==
    /\ schema = "fixed"
    /\ inv = << >>
    /\ sales = << >>
    /\ ledger = << >>
    /\ khata = << >>
    /\ staff = << >>
    /\ h = [p \in Procs |-> Idle]
    /\ nreq = 0
    /\ mpc = "sleep"
    /\ mrows = << >>
    /\ mi = 0
    /\ ncycle = 0
    /\ sent = [t \in {"Inventory", "Staff", "Khata"} |-> NoAlerts]
    /\ crossings = NoAlerts
    /\ nfault = 0
    /\ users \in [Accounts -> {NoHash, hash_pass("p1")}]
    /\ sess = NewSession
    /\ url \in Emails \cup {""}
    /\ logged_out = FALSE
    /\ gateway = "up"

DashSpec == DashInit /\ [][Dashboard]_vars

\* The monitor on its own, on a spreadsheet that needs all three alerts and
\* that no request changes any more: the state left by a credit sale of 12
\* maggi for 501 on an empty Inventory followed by a restock of 4 magi.  The
\* messaging service is configured and delivering, configured and failing,
\* or not configured.
AlertInit ==
    /\ schema \in {"init", "fixed"}
    /\ inv = <<[name |-> "magi", qty |-> 4, flag |-> ""]>>
    /\ sales = <<[name |-> "maggi", qty |-> 12, mode |-> "UDHAR"]>>
    /\ ledger = <<[name |-> "magi"]>>
    /\ khata = <<[amount |-> 501, status |-> "Pending", flag |-> ""]>>
    /\ staff = <<[name |-> "raju", status |-> "Present", flag |-> ""],
                 [name |-> "shyam", status |-> "Absent", flag |-> ""]>>
    /\ h = [p \in Procs |-> IF p = 1 THEN Done(Idle, "ok") ELSE Idle]
    /\ nreq = 2
    /\ mpc = "sleep"
    /\ mrows = << >>
    /\ mi = 0
    /\ ncycle = 0
    /\ sent = [t \in {"Inventory", "Staff", "Khata"} |-> NoAlerts]
    /\ crossings = NoAlerts
    /\ nfault = 0
    /\ users = [e \in Accounts |-> NoHash]
    /\ sess = NewSession
    /\ url = ""
    /\ logged_out = FALSE
    /\ gateway \in {"up", "down", "none"}

AlertNext ==
    \/ Monitor
    \/ OwnerMarksPaid

AlertSpec == AlertInit /\ [][AlertNext]_vars

\* The monitor is a process of its own (run_system.py:108-111) running a
\* straight-line loop: inside a cycle its next call is eventually made, and
\* returns or raises.  Nothing is assumed about when a sleeping monitor finds
\* the spreadsheet, nor about the arrival of requests.
FairSpec == Spec /\ WF_vars(mpc # "sleep" /\ Monitor)

\* ------------------------------------------------------------ the claims
InvRows == 1..Len(inv)

\* The monitor takes a step of the loop of a check: every such step moves
\* mi or mpc.
MonitorStepsAt(loop) == mpc = loop /\ <<mpc, mi>>' # <<mpc, mi>>

\* A handler step that leaves position pc.
Leaves(p, pc) == h[p].pc = pc /\ h'[p].pc # pc

C2_ResetOnRestock ==
    [][ /\ ( /\ MonitorStepsAt("inv_rows")
             /\ nfault' = nfault
             /\ mrows[mi].qty >= LowStock
             /\ mrows[mi].flag = "SENT" )
           => inv'[mi].flag = ""
        /\ \A k \in InvRows :
             (inv[k].flag = "SENT" /\ inv'[k].flag = "")
               => ( /\ MonitorStepsAt("inv_rows")
                    /\ k = mi
                    /\ mrows[mi].qty >= LowStock )
      ]_vars

\* A row alerted while below 10 is at 10 or more again and its flag, written
\* SENT (no call has raised), is empty again.
C2_Witness ==
    \E k \in InvRows :
        /\ sent["Inventory"][k] >= 1
        /\ nfault = 0
        /\ inv[k].qty >= LowStock
        /\ inv[k].flag = ""

\* Best similarity score of an item name against the Inventory names.
BestScore(item) ==
    IF inv = << >> THEN 0
    ELSE CHOOSE x \in {Score(item, inv[k].name) : k \in InvRows} :
           \A k \in InvRows : Score(item, inv[k].name) <= x

\* C3: when the best score of the item name against the Inventory names is
\* above the cutoff, update_inventory_stock picks a row whose name has that
\* score, writes the changed quantity to that row, and the Inventory tab
\* keeps its number of rows, for sales and for restocks.
C3_MatchUpdatesExistingRow ==
    [][ \A p \in Procs :
          /\ ( /\ Leaves(p, "inv_read")
               /\ nfault' = nfault
               /\ BestScore(h[p].req.item) > FuzzyCutoff )
             => ( /\ h'[p].pc = "inv_write"
                  /\ h'[p].row \in InvRows
                  /\ Score(h[p].req.item, inv[h'[p].row].name)
                       = BestScore(h[p].req.item)
                  /\ h'[p].name = inv[h'[p].row].name
                  /\ inv' = inv )
          /\ ( Leaves(p, "inv_write") /\ nfault' = nfault )
             => ( /\ Len(inv') = Len(inv)
                  /\ inv'[h[p].row].qty
                       = Max(0, inv[h[p].row].qty + Change(h[p].req))
                  /\ \A k \in InvRows \ {h[p].row} : inv'[k] = inv[k] )
      ]_vars

\* A request whose item name differs from the matched name has updated the
\* one existing row (no call has raised).
C3_Witness ==
    \E p \in Procs :
        /\ h[p].pc \in {"sales", "ledger", "inv_cost"}
        /\ h[p].name # h[p].req.item
        /\ nfault = 0
        /\ nreq = 2
        /\ Len(inv) = 1
        /\ inv[1].name = h[p].name
        /\ inv[1].qty \notin {4, 12}

\* Which tab a loop of the monitor scans.
TabOf(loop) ==
    CASE loop = "inv_rows" -> "Inventory"
      [] loop = "staff_rows" -> "Staff"
      [] loop = "khata_rows" -> "Khata"

\* C4: in each of the three checks an alert is sent for a row only by a step
\* of that check's loop on that row, and never when the flag read for the row
\* is SENT.
C4_SentFlagSuppressesAlert ==
    [][ sent' # sent
          => \E loop \in {"inv_rows", "staff_rows", "khata_rows"} :
               /\ MonitorStepsAt(loop)
               /\ mrows[mi].flag # "SENT"
               /\ \A t \in DOMAIN sent : \A k \in 1..RowCap :
                    sent'[t][k] # sent[t][k] => (t = TabOf(loop) /\ k = mi)
      ]_vars

\* The inventory loop has gone past a row it read below 10 with flag SENT,
\* and the row still has the one alert of the earlier scan.
C4_Witness ==
    /\ mpc = "inv_rows"
    /\ mi = 2
    /\ mrows[1].flag = "SENT"
    /\ mrows[1].qty < LowStock
    /\ sent["Inventory"][1] = 1

\* C5 as claimed: a write of update_inventory_stock that returns leaves the
\* row at n - q after a SALE of q and at n + q after a RESTOCK of q, n being
\* the quantity the row held.
C5_Additive ==
    [][ \A p \in Procs :
          ( Leaves(p, "inv_write") /\ nfault' = nfault )
            => inv'[h[p].row].qty = inv[h[p].row].qty + Change(h[p].req)
      ]_vars

\* C5 as amended: the row is left at max(0, n - q) after a SALE of q, which
\* is n - q when q <= n and 0 when q > n, and at n + q after a RESTOCK of q.
C5_AdditiveClampedAtZero ==
    [][ \A p \in Procs :
          ( Leaves(p, "inv_write") /\ nfault' = nfault )
            => LET n == inv[h[p].row].qty
                   q == h[p].req.qty
               IN IF h[p].req.action = "SALE"
                  THEN inv'[h[p].row].qty = (IF q <= n THEN n - q ELSE 0)
                  ELSE inv'[h[p].row].qty = n + q
      ]_vars

\* A sale of 12 units has been written to the one row, which held fewer (it
\* never was at 10 or more) and is now at 0.
C5_Witness ==
    \E p \in Procs :
        /\ h[p].pc = "sales"
        /\ h[p].req.qty = 12
        /\ nfault = 0
        /\ nreq = 2
        /\ Len(inv) = 1
        /\ inv[1].name = h[p].name
        /\ crossings[1] = 0
        /\ inv[1].qty = 0

\* s is t, or t with one row appended below it.
GrowsByAtMostOne(s, t) ==
    /\ Len(t) \in {Len(s), Len(s) + 1}
    /\ SubSeq(t, 1, Len(s)) = s

\* C6: no step changes or removes a Sales or Ledger row; a Sales row is
\* appended exactly by the step in which a handler's Sales append returns,
\* a Ledger row exactly by the step in which its Ledger append returns, and
\* a request comes to the Sales append only as a SALE and to the Ledger
\* append only as a RESTOCK, once, from update_inventory_stock.
C6_SalesLedgerAppendOnly ==
    [][ /\ GrowsByAtMostOne(sales, sales')
        /\ GrowsByAtMostOne(ledger, ledger')
        /\ Len(sales') = Len(sales) + 1
             <=> \E p \in Procs : Leaves(p, "sales") /\ nfault' = nfault
        /\ Len(ledger') = Len(ledger) + 1
             <=> \E p \in Procs : Leaves(p, "ledger") /\ nfault' = nfault
        /\ \A p \in Procs :
             /\ (h'[p].pc = "sales" /\ h[p].pc # "sales")
                  => /\ h[p].pc \in {"inv_read", "inv_write", "inv_append"}
                     /\ h[p].req.action = "SALE"
             /\ (h'[p].pc = "ledger" /\ h[p].pc # "ledger")
                  => /\ h[p].pc \in {"inv_read", "inv_write", "inv_append",
                                     "inv_cost"}
                     /\ h[p].req.action = "RESTOCK"
      ]_vars

\* Both tabs hold a row and every handler has returned.
C6_Witness ==
    /\ Len(sales) = 1
    /\ Len(ledger) = 1
    /\ \A p \in Procs : h[p].pc = "idle"

\* C7: a row appended to Khata has status Pending; a step that changes the
\* status of a row is a step of neither a handler nor the monitor; and a
\* step of the monitor changes no amount and no status and adds no row.
C7_KhataStatusUntouched ==
    [][ /\ Len(khata') >= Len(khata)
        /\ Len(khata') > Len(khata)
             => /\ khata'[Len(khata')].status = "Pending"
                /\ \E p \in Procs : Leaves(p, "khata")
        /\ \A k \in 1..Len(khata) :
             /\ khata'[k].amount = khata[k].amount
             /\ khata'[k].status # khata[k].status
                  => UNCHANGED <<h, mpc, mi, mrows>>
             /\ khata'[k].flag # khata[k].flag
                  => MonitorStepsAt("khata_rows") /\ k = mi
      ]_vars

\* The monitor has flagged a Khata row, which is still Pending.
C7_Witness ==
    \E k \in 1..Len(khata) :
        khata[k].flag = "SENT" /\ khata[k].status = "Pending"

\* Credit sales recorded in Sales whose Khata row neither exists nor is about
\* to be appended by a running handler.
KhataDeficit ==
    Cardinality({k \in 1..Len(sales) : sales[k].mode = "UDHAR"})
      - Len(khata) - Cardinality({p \in Procs : h[p].pc = "khata"})

\* C8: when the Khata append of a credit sale raises, the handler returns
\* the error reply and Inventory, Sales and Khata stay as they are, so the
\* sale is in Sales without a Khata row; and no later step makes up for a
\* missing Khata row.
C8_NoCompensation ==
    [][ /\ \A p \in Procs :
             (Leaves(p, "khata") /\ nfault' # nfault)
               => /\ h'[p].pc = "done"
                  /\ h'[p].reply = "error"
                  /\ UNCHANGED <<inv, sales, khata>>
                  /\ KhataDeficit' = KhataDeficit + 1
        /\ KhataDeficit' >= KhataDeficit
      ]_vars

\* A credit sale of 12 units debited the row and is in Sales, its Khata
\* append raised, and every handler has returned.
C8_Witness ==
    /\ KhataDeficit = 1
    /\ \A p \in Procs : h[p].pc = "idle"
    /\ Len(khata) = 0
    /\ Len(sales) = 1
    /\ sales[1].mode = "UDHAR"
    /\ Len(inv) = 1
    /\ inv[1].qty = 0
    /\ crossings[1] = 1

\* C9 as claimed: while one handler is inside update_inventory_stock, about
\* to read the Inventory tab or between its read and its write, a second
\* request can be taken up by another handler (as long as the run takes
\* requests at all), so that the two read-write pairs can interleave.
C9_RequestsInterleave ==
    \A p \in Procs :
        (h[p].pc \in {"inv_read", "inv_write"} /\ nreq < MaxReq)
          => \E q \in Procs \ {p} : ENABLED Receive(q)

\* C9 as amended: at most one handler is running at a time, and the cell a
\* handler is about to write still holds the quantity that handler read.
C9_WritesLandOnValueRead ==
    /\ \A p, q \in Procs :
         (p # q /\ h[p].pc # "idle") => h[q].pc = "idle"
    /\ \A p \in Procs :
         h[p].pc = "inv_write"
           => /\ h[p].row \in InvRows
              /\ inv[h[p].row].name = h[p].name
              /\ inv[h[p].row].qty = h[p].cur

\* A second request is about to write the row an earlier request created.
C9_Witness ==
    \E p \in Procs :
        /\ h[p].pc = "inv_write"
        /\ nreq = 2
        /\ inv[h[p].row].qty = h[p].cur

\* C10: whatever call raised, a handler that has finished holds one of the
\* replies the code builds for the user; no exception has left it.
C10_AlwaysReplies ==
    \A p \in Procs : h[p].pc = "done" => h[p].reply \in UserReplies

\* A spreadsheet call of a dispatched request raised and the handler
\* finished with the error reply.
C10_Witness ==
    \E p \in Procs :
        /\ h[p].pc = "done"
        /\ h[p].reply = "error"
        /\ nfault = 1
        /\ nreq >= 1
        /\ Len(sales) + Len(ledger) < nreq

\* The positions of the monitor inside each check, and the check after it.
CheckAt(c) ==
    CASE c = "Inventory" -> {"inv", "inv_rows"}
      [] c = "Staff" -> {"staff", "staff_rows"}
      [] c = "Khata" -> {"khata", "khata_rows"}
AfterCheck(c) ==
    CASE c = "Inventory" -> "staff"
      [] c = "Staff" -> "khata"
      [] c = "Khata" -> "sleep"

\* C11: a step of a check, raising or not, stays in that check or moves to
\* the check after it (to the sleep after the last one), so a failure never
\* skips a check of the cycle; a sleeping monitor can always start another
\* cycle (as long as the run has cycles left); and every cycle that was
\* started comes back to the sleep, whatever raised in it.
C11_MonitorKeepsPolling ==
    /\ [][ \A c \in {"Inventory", "Staff", "Khata"} :
             (mpc \in CheckAt(c) /\ mpc' # mpc)
               => mpc' \in CheckAt(c) \cup {AfterCheck(c)} ]_vars
    /\ []( (mpc = "sleep" /\ ncycle < MaxCycles) => ENABLED <<CycleStart>>_vars )
    /\ []( mpc # "sleep" => ENABLED <<Monitor>>_vars )
    /\ ( mpc # "sleep" ~> mpc = "sleep" )

\* In the first cycle the flag write of the staff check raised (the row was
\* alerted, its flag is still empty) and the cash-flow check is running.
C11_Witness ==
    /\ ncycle = 1
    /\ mpc = "khata_rows"
    /\ sent["Staff"][2] = 1
    /\ staff[2].status = "Absent"
    /\ staff[2].flag = ""

\* C12 as claimed: tenant data is on the page only in an authenticated
\* session, and a session becomes authenticated for an account that has a
\* stored password hash only in a step that submits that account's email
\* with a password whose hash equals the stored one.
C12_PasswordGate ==
    [][ /\ sess'.shown = "data" => sess'.authenticated
        /\ ( /\ sess'.authenticated
             /\ ~sess.authenticated
             /\ users[sess'.user_email] # NoHash )
           => ( /\ sess.email_input = sess'.user_email
                /\ hash_pass(sess.pass_input) = users[sess'.user_email] )
      ]_vars

\* C13 as claimed: a Staff row is alerted once per absence, on the tab of
\* either schema.  No request of the run sets an Absent row Absent a second
\* time, so every row has at most one absence; with no transient failure of a
\* remote call, no row has been alerted more than once.
C13_AbsenceAlertedOnce ==
    nfault = 0 => \A k \in 1..Len(staff) : sent["Staff"][k] <= 1

\* The cash-flow check alerts for a row it read as r.
Due(r) == r.status = "Pending" /\ r.amount > DuesLimit /\ r.flag # "SENT"

\* C14 as claimed: a step of the cash-flow loop alerts for the row at hand
\* exactly when it read it Pending, above 500 and not flagged, and then (no
\* call failing transiently) the row's flag is SENT; a flag goes from SENT to
\* empty only on a row read as Paid; every other row, and a row that is
\* neither due nor Paid with flag SENT, stays as it is.
C14_CashFlowAlertRule ==
    [][ MonitorStepsAt("khata_rows")
          => /\ sent'["Khata"][mi] =
                  sent["Khata"][mi] + (IF Due(mrows[mi]) THEN 1 ELSE 0)
             /\ (Due(mrows[mi]) /\ nfault' = nfault)
                  => khata'[mi].flag = "SENT"
             /\ \A k \in 1..Len(khata) :
                  /\ (khata[k].flag = "SENT" /\ khata'[k].flag = "")
                       => (k = mi /\ mrows[mi].status = "Paid")
                  /\ k # mi => khata'[k] = khata[k]
             /\ ( ~Due(mrows[mi])
                  /\ ~(mrows[mi].status = "Paid" /\ mrows[mi].flag = "SENT") )
                  => khata' = khata
      ]_vars

\* C15: the inventory loop writes SENT for a row it read below 10 and not
\* flagged, whatever the row holds by then: after a restock that came between
\* the read and the write the row is at 10 or more with flag SENT (the write
\* touches only the flag).  A later scan that reads the row in that state
\* writes the empty flag.  Both for writes that return.
C15_UnconditionalFlagWrite ==
    [][ (MonitorStepsAt("inv_rows") /\ nfault' = nfault)
          => /\ (mrows[mi].qty < LowStock /\ mrows[mi].flag # "SENT")
                  => /\ inv'[mi].flag = "SENT"
                     /\ inv'[mi].qty = inv[mi].qty
             /\ (mrows[mi].qty >= LowStock /\ mrows[mi].flag = "SENT")
                  => /\ inv'[mi].flag = ""
                     /\ inv'[mi].qty = inv[mi].qty
      ]_vars

\* The monitor read a row below 10, a restock then took the row to 10 or
\* more, and the monitor is about to write the row's flag.
C15_Witness ==
    /\ mpc = "inv_rows"
    /\ mrows[mi].qty < LowStock
    /\ mrows[mi].flag = ""
    /\ inv[mi].qty >= LowStock
    /\ inv[mi].flag = ""
    /\ \A p \in Procs : h[p].pc \in {"idle", "done"}

\* A handler step out of the Inventory read, the Inventory append or the
\* Sales append, or into the Inventory append.
OnInventoryPath(q) ==
    /\ h'[q].pc # h[q].pc
    /\ \/ h[q].pc \in {"inv_read", "inv_append", "sales"}
       \/ h'[q].pc = "inv_append"

\* C16: when the best score of the item name is at most 80 (80 itself and
\* an empty tab included) and the read returns, update_inventory_stock keeps
\* the raw name and leaves the tab as it is; a RESTOCK goes on to append, and
\* its append, when it returns, adds one row with the raw name, the restocked
\* quantity and an empty flag below the rows that were there; a SALE goes
\* straight to the Sales append, which changes nothing in Inventory and puts
\* the name the handler holds into the Sales row.  Nothing else leads to an
\* Inventory append.
C16_NoMatchAppendsOrSkips ==
    [][ (\E q \in Procs : OnInventoryPath(q)) => \A p \in Procs :
          /\ ( /\ Leaves(p, "inv_read")
               /\ nfault' = nfault
               /\ BestScore(h[p].req.item) <= FuzzyCutoff )
             => ( /\ inv' = inv
                  /\ h'[p].name = h[p].req.item
                  /\ h'[p].pc = IF h[p].req.action = "RESTOCK"
                                THEN "inv_append" ELSE "sales" )
          /\ ( h'[p].pc = "inv_append" /\ h[p].pc # "inv_append" )
             => ( /\ h[p].pc = "inv_read"
                  /\ h[p].req.action = "RESTOCK"
                  /\ BestScore(h[p].req.item) <= FuzzyCutoff )
          /\ ( Leaves(p, "inv_append") /\ nfault' = nfault )
             => inv' = Append(inv, [name |-> h[p].req.item,
                                    qty |-> h[p].req.qty, flag |-> ""])
          /\ ( Leaves(p, "sales") /\ nfault' = nfault )
             => ( /\ inv' = inv
                  /\ sales'[Len(sales')].name = h[p].name
                  /\ sales'[Len(sales')].qty = h[p].req.qty )
      ]_vars

\* A restock of "maggy" found only "maggi" (score exactly 80) and was
\* appended as a second row with its quantity and an empty flag; no call
\* has raised.
C16_Witness ==
    /\ nfault = 0
    /\ Len(inv) = 2
    /\ inv[1].name = "maggi"
    /\ inv[2] = [name |-> "maggy", qty |-> 12, flag |-> ""]
    /\ Score("maggy", "maggi") = FuzzyCutoff

\* C17: no Inventory row ever holds a negative quantity; a sale of more
\* units than the matched row holds writes 0 to the row; and the Sales row of
\* a sale records the quantity that was asked for, whatever was in stock.
C17_QuantityNeverNegative ==
    /\ [](\A k \in InvRows : inv[k].qty >= 0)
    /\ [][ \A p \in Procs :
             /\ ( /\ Leaves(p, "inv_write")
                  /\ nfault' = nfault
                  /\ h[p].req.action = "SALE"
                  /\ h[p].req.qty > inv[h[p].row].qty )
                => inv'[h[p].row].qty = 0
             /\ ( Leaves(p, "sales") /\ nfault' = nfault )
                => sales' = Append(sales, SalesRowFor(h[p].name, h[p].req))
         ]_vars

\* Twelve units were sold from a row that held four: the row is at 0 and
\* the Sales row says 12.
C17_Witness ==
    /\ Len(inv) = 1
    /\ inv[1].qty = 0
    /\ crossings[1] = 0
    /\ Len(sales) = 1
    /\ sales[1].qty = 12
    /\ sales[1].name = inv[1].name

\* C18: a request whose action is none of SALE, RESTOCK and STAFF is only
\* ever at the final return of the handler, and its one step changes no tab
\* and ends with the confirmation reply.
C18_ExpenseWritesNothing ==
    /\ [](\A p \in Procs :
            ( /\ h[p].pc \notin {"idle", "done"}
              /\ h[p].req.action \notin {"SALE", "RESTOCK", "STAFF"} )
              => h[p].pc = "reply")
    /\ [][ \A p \in Procs :
             Leaves(p, "reply")
               => ( /\ UNCHANGED tabs
                    /\ h'[p].pc = "done"
                    /\ h'[p].reply = "ok" )
         ]_vars

\* The only request of the run was an expense: the handler has its
\* confirmation reply and every tab is as it was created.
C18_Witness ==
    /\ nreq = 1
    /\ nfault = 0
    /\ \E p \in Procs : h[p].pc = "done" /\ h[p].reply = "ok"
    /\ inv = << >>
    /\ sales = << >>
    /\ ledger = << >>
    /\ khata = << >>
    /\ \A k \in 1..Len(staff) : staff[k].flag = ""

\* The rows of the tab a loop scans, the decision it takes on a row, whether
\* the tab's grid has the loop's flag column, and the check after the loop.
RowsOf(loop) ==
    CASE loop = "inv_rows" -> inv
      [] loop = "staff_rows" -> staff
      [] loop = "khata_rows" -> khata
DecisionAt(loop, row) ==
    CASE loop = "inv_rows" -> InvDecision(row)
      [] loop = "staff_rows" -> StaffDecision(row)
      [] loop = "khata_rows" -> KhataDecision(row)
HasFlagColumn(loop) ==
    CASE loop = "inv_rows" -> TRUE
      [] loop = "staff_rows" -> StaffCols >= 6
      [] loop = "khata_rows" -> KhataCols >= 7
AfterLoop(loop) ==
    CASE loop = "inv_rows" -> "staff"
      [] loop = "staff_rows" -> "khata"
      [] loop = "khata_rows" -> "sleep"
ReadOf(loop) ==
    CASE loop = "inv_rows" -> "inv"
      [] loop = "staff_rows" -> "staff"
      [] loop = "khata_rows" -> "khata"

C19_ResentAfterFailedWrite ==
    /\ gateway = "up" /\ schema = "fixed" /\ nfault = 1
    /\ sent["Inventory"][1] = 2
    /\ inv[1].flag = "SENT"

\* C20 as claimed: a step of the dashboard changes the stored hash of an
\* account only if that account had no hash before the step.
C20_HashNeverOverwritten ==
    [][ \A e \in Accounts : users'[e] # users[e] => users[e] = NoHash ]_vars

\* C21 as claimed: once Logout has been clicked, and until credentials are
\* submitted through the login form, the session is not authenticated and
\* the tenant's data is not on the page, whichever way the session had been
\* authenticated.
C21_LogoutEndsSession ==
    logged_out => (~sess.authenticated /\ sess.shown # "data")

\* The same for the sessions whose URL does not name an account, which are
\* the sessions that were authenticated with a password.
C21_LogoutEndsPasswordSession ==
    (url \notin Accounts) => C21_LogoutEndsSession

\* A session that was authenticated with a password has been logged out and
\* shows the login form.
C21_PasswordSessionLoggedOut ==
    /\ logged_out
    /\ url \notin Accounts
    /\ ~sess.authenticated
    /\ sess.user_email \in Accounts
    /\ sess.shown = "login"

====
